---- MODULE Spec2Model ----
(***************************************************************************)
(* The monitoring / dedup / rate-limit control loop of the football bot:   *)
(* FootballTwitterBot.run_cycle and the methods it calls (src/bot.py),     *)
(* with the collaborators (feed, classifier, rewriter, publisher,          *)
(* notifier) reduced to the results they hand back to the bot.             *)
(*                                                                         *)
(* One cycle is a single sequential flow of control.  It is cut into steps *)
(* at its awaits; pc is the position of that flow.  The clock advances     *)
(* between steps (Tick), so time passes during every awaited call.         *)
(***************************************************************************)
EXTENDS Integers, Sequences, FiniteSets, TLC

\* ---------------------------------------------------------------- bounds
\* Item identifiers the feed can return are 1..NumIds.
NumIds == 3
\* The clock runs from its start value up to MaxTime.
MaxTime == 4

\* ------------------------------------------------------ program constants
\* The cache cap of _monitor_journalist, scaled down: the code prunes when
\* len(processed_tweets) > 10000 and keeps 5000 entries.  The model keeps the
\* same comparison and the same slice with these smaller numbers.
MaxProcessed == 2
KeepProcessed == 1
\* Length of a calendar day in clock ticks (datetime.replace(hour=0, ...)
\* maps a time to the start of its day).
DayLen == 2

Ids == 1..NumIds

\* config.journalists, in list order (journalists.json).  run_cycle iterates
\* this list itself.
journalists ==
  << [username |-> "j1", reliability_score |-> 95, enabled |-> TRUE],
     [username |-> "j2", reliability_score |-> 60, enabled |-> FALSE] >>

\* Values of settings.json tried for max_posts_per_day and min_post_interval.
MaxPostsChoices == {0, 1, 2}
MinIntervalChoices == {0, 2}
\* tweets_per_check: the fetch limit.
TweetsPerCheck == 2
\* Values of settings.json tried for tweets_per_check.
TweetsPerCheckChoices == {1, TweetsPerCheck}
\* check_interval: the sleep between two cycles, in clock ticks.
CheckInterval == 1

VARIABLES
  config,            \* Config: max_posts_per_day, min_post_interval, tweets_per_check
  processed_tweets,  \* FootballTwitterBot.processed_tweets
  last_post_time,    \* FootballTwitterBot.last_post_time
  post_count_today,  \* FootballTwitterBot.post_count_today
  daily_reset_time,  \* FootballTwitterBot.daily_reset_time
  now,               \* the clock read by time.time() and datetime.now()
  pc,                \* position of the flow of control
  running,           \* BotManager.running
  sleep_until,       \* the time at which the sleep in progress ends
  cycle,             \* history: what the cycle in progress has met so far
  fmt,               \* one call of _format_final_tweet: arguments, result
  signalled,         \* history: has a shutdown signal been delivered
  src_idx,           \* index of the journalist being monitored
  tweets,            \* the list get_user_tweets returned for that journalist
  tw_idx,            \* index of the tweet being processed
  answer,            \* what the Groq call returned for the tweet in progress
  calls,             \* history: collaborator calls made by the latest program step
  post_log,          \* history: times recorded for the last two successful posts
  classify_count,    \* history: classifier calls per id since pruning last discarded it
  ever_added,        \* history: ids ever added to processed_tweets
  insert_order       \* history: the ids of processed_tweets, oldest insertion first

vars == << config, processed_tweets, last_post_time, post_count_today,
           daily_reset_time, now, pc, running, sleep_until, cycle, fmt,
           signalled,
           src_idx, tweets, tw_idx, answer,
           calls, post_log, classify_count, ever_added, insert_order >>

budget == << last_post_time, post_count_today, daily_reset_time >>
cache == << processed_tweets, ever_added, insert_order, classify_count >>
position == << src_idx, tweets, tw_idx, answer >>
manager == << running, sleep_until >>

\* ---------------------------------------------------------------- helpers

\* now.replace(hour=0, minute=0, second=0, microsecond=0)
TodayStart(t) == t - (t % DayLen)

\* Sequences of identifiers of length 0..n.
SeqsUpTo(n) == UNION { [1..k -> Ids] : k \in 0..n }

CurId == tweets[tw_idx]
CurJournalist == journalists[src_idx]

\* A collaborator call: which one, for which item (0 for a fetch, which is
\* for a journalist), and whether it reported success.
Call(op, id, ok) == [op |-> op, id |-> id, ok |-> ok]

\* The results _call_groq_api can hand to is_football_related: a text, None
\* (HTTP error, timeout, exception inside the call), or an exception raised
\* in is_football_related itself.
Answers == {"YES", "NO", "NONE", "RAISE"}
FailedAnswers == {"NONE", "RAISE"}

\* Variant: a failed classification counts as relevant (fail-open).
IsFootballRelatedFailOpen(a) == a # "NO"

\* AIProcessor.is_football_related: True only for the answer YES; no
\* response and any exception give False.
IsFootballRelated(a) == a = "YES"

\* Variant: the daily limit is not checked.
CanPostNoDailyLimit(t) ==
  ~(t - last_post_time < config.min_post_interval)

\* Variant: the minimum interval is not checked.
CanPostNoInterval(t) ==
  ~(post_count_today >= config.max_posts_per_day)

\* Variant: the interval comparison is <= instead of <.
CanPostStrictInterval(t) ==
  /\ ~(t - last_post_time <= config.min_post_interval)
  /\ ~(post_count_today >= config.max_posts_per_day)

\* FootballTwitterBot._can_post at clock value t.
CanPost(t) ==
  /\ ~(t - last_post_time < config.min_post_interval)
  /\ ~(post_count_today >= config.max_posts_per_day)

\* Variant: the already-processed test never succeeds.
AlreadyProcessedNever(id) == FALSE

\* `tweet['id'] in self.processed_tweets`
AlreadyProcessed(id) == id \in processed_tweets

\* Variant: the size check is off by one.
OverCapOffByOne(S) == Cardinality(S) > MaxProcessed + 1

\* `len(self.processed_tweets) > 10000`
OverCap(S) == Cardinality(S) > MaxProcessed

\* set(list(S)[-5000:]): the list order of a set is whatever the hash table
\* gives, so the slice may be any KeepProcessed of its elements.
PruneResults(S) == { K \in SUBSET S : Cardinality(K) = KeepProcessed }

\* The history of a cycle that has met nothing yet.  `track` says which
\* part of it is kept: "off" none, "seen" the field all_seen, "scenario" the
\* other fields.  Each specification keeps the part its properties read.
NewCycle(track, c) ==
  [ track |-> track,
    start_count |-> c,    \* post_count_today after the reset check
    relevant |-> << >>,   \* ids classified as football, in encounter order
    all_ok |-> TRUE,      \* no rewrite and no publish has failed
    all_seen |-> TRUE ]   \* every tweet fetched was in processed_tweets

\* The history after a step that adds `new` to the part `part` of it.
Track(part, new) == cycle' = IF cycle.track = part THEN new ELSE cycle

\* ------------------------------------------------- _format_final_tweet

\* A text is a sequence of characters, one element for each character that
\* Python's len counts; an emoji is one character, written by its colour.
\* A score is kept in tenths with the type it has in journalists.json:
\* 95 (int) prints as "95", 95.0 (float) as "95.0".

\* The length limit of a tweet.
TweetLimit == 280
\* The rewritten text is shortened only if more than this is left for it.
MinContent == 50
\* The longest rewritten text tried.
MaxRewritten == 300
\* The lengths of the usernames tried: two usual ones, and the long ones that
\* leave about MinContent characters for the text.
UsernameLens == {4, 15} \cup 184..192

Letters == << "a", "b", "c", "d", "e", "f", "g" >>

\* A text of n characters that differ from place to place.
Text(n) == [i \in 1..n |-> Letters[((i - 1) % 7) + 1]]

\* A username of n characters.
Username(n) == [i \in 1..n |-> "u"]

DigitChar(d) == << "0", "1", "2", "3", "4", "5", "6", "7", "8", "9" >>[d + 1]

RECURSIVE IntStr(_)
\* str(n) for an int n >= 0
IntStr(n) == IF n < 10 THEN << DigitChar(n) >>
                       ELSE IntStr(n \div 10) \o << DigitChar(n % 10) >>

\* The scores validate_journalist accepts, 0 <= score <= 100, with at most
\* one decimal.
Scores ==
  { [tenths |-> t, as_int |-> b] :
      t \in 0..1000, b \in BOOLEAN } \ 
  { sc \in [tenths : 0..1000, as_int : {TRUE}] : sc.tenths % 10 # 0 }

\* The scores tried together with every length.
LengthScores ==
  { [tenths |-> 70, as_int |-> TRUE], [tenths |-> 600, as_int |-> TRUE],
    [tenths |-> 950, as_int |-> FALSE], [tenths |-> 1000, as_int |-> FALSE] }

\* `{reliability_score}` in the f-string: str of an int or of a float
ScoreStr(sc) ==
  IF sc.as_int
    THEN IntStr(sc.tenths \div 10)
    ELSE IntStr(sc.tenths \div 10) \o << "." >>
           \o << DigitChar(sc.tenths % 10) >>

\* Variant: a score of exactly 90 is not in the first tier.
ReliabilityEmojiStrict(sc) ==
  IF sc.tenths > 900 THEN "GREEN"
  ELSE IF sc.tenths >= 700 THEN "YELLOW"
  ELSE IF sc.tenths >= 500 THEN "ORANGE"
  ELSE "RED"

\* The if/elif chain on reliability_score: >= 90, >= 70, >= 50, else.
ReliabilityEmoji(sc) ==
  IF sc.tenths >= 900 THEN "GREEN"
  ELSE IF sc.tenths >= 700 THEN "YELLOW"
  ELSE IF sc.tenths >= 500 THEN "ORANGE"
  ELSE "RED"

\* f"\n\nSource - @{username}\n[Reliability Score: {emoji} - {score}%]"
Suffix(username, sc) ==
  << "\n", "\n", "S", "o", "u", "r", "c", "e", " ", "-", " ", "@" >>
    \o username \o << "\n" >>
    \o << "[", "R", "e", "l", "i", "a", "b", "i", "l", "i", "t", "y", " ",
          "S", "c", "o", "r", "e", ":", " " >>
    \o << ReliabilityEmoji(sc) >> \o << " ", "-", " " >>
    \o ScoreStr(sc) \o << "%", "]" >>

\* The first formatted_tweet: the rewritten text and the attribution.
Assembled(rewritten, username, sc) == rewritten \o Suffix(username, sc)

\* max_rewritten_length
Allowance(username, sc) == TweetLimit - Len(Suffix(username, sc))

\* Variant: the text is shortened when exactly MinContent is left, too.
TruncationAllowedFromMin(m) == m >= MinContent

\* `if max_rewritten_length > 50:`
TruncationAllowed(m) == m > MinContent

\* Variant: the ellipsis is not counted.
KeptLengthNoEllipsis(m) == m

\* `max_rewritten_length-3`
KeptLength(m) == m - 3

\* rewritten_text[:n] for n >= 0, which is the case wherever it is used
Prefix(text, n) == SubSeq(text, 1, IF n < Len(text) THEN n ELSE Len(text))

Ellipsis == << ".", ".", "." >>

\* _format_final_tweet(rewritten_text, username, reliability_score, tier)
FormatFinalTweet(rewritten, username, sc) ==
  LET formatted_tweet == Assembled(rewritten, username, sc)
      max_rewritten_length == Allowance(username, sc)
  IN  IF Len(formatted_tweet) > TweetLimit
        THEN IF TruncationAllowed(max_rewritten_length)
               THEN Prefix(rewritten, KeptLength(max_rewritten_length))
                      \o Ellipsis \o Suffix(username, sc)
               ELSE formatted_tweet
        ELSE formatted_tweet

\* No call of _format_final_tweet is looked at.
NoFormat ==
  [ pending |-> FALSE, rewritten |-> << >>, username |-> << >>,
    score |-> [tenths |-> 0, as_int |-> TRUE], out |-> << >> ]

\* The calls looked at: every length of text with some usernames and some
\* scores, and every score with one text and one username.
FormatInputs ==
  { [ pending |-> TRUE, rewritten |-> Text(r), username |-> Username(u),
      score |-> sc, out |-> << >> ] :
      r \in 0..MaxRewritten, u \in UsernameLens, sc \in LengthScores }
  \cup
  { [ pending |-> TRUE, rewritten |-> Text(20), username |-> Username(4),
      score |-> sc, out |-> << >> ] : sc \in Scores }

\* ------------------------------------------------------------------ Init

InitBot ==
  /\ config \in [ max_posts_per_day : MaxPostsChoices,
                  min_post_interval : MinIntervalChoices,
                  tweets_per_check : TweetsPerCheckChoices,
                  check_interval : {CheckInterval} ]
  /\ processed_tweets = {}
  /\ last_post_time = 0
  /\ post_count_today = 0
  /\ now = DayLen
  /\ daily_reset_time = TodayStart(now)
  /\ pc = "starting"
  /\ running = FALSE
  /\ sleep_until = 0
  /\ src_idx = 1
  /\ tweets = << >>
  /\ tw_idx = 1
  /\ answer = "PENDING"
  /\ calls = << >>
  /\ post_log = << >>
  /\ classify_count = [i \in Ids |-> 0]
  /\ ever_added = {}
  /\ insert_order = << >>

Init ==
  /\ InitBot
  /\ config.tweets_per_check = TweetsPerCheck
  /\ cycle = NewCycle("off", 0)
  /\ fmt = NoFormat
  /\ signalled = "untracked"

\* --------------------------------------------------------------- actions

\* Time passes.
Tick ==
  /\ now < MaxTime
  /\ now' = now + 1
  /\ UNCHANGED << config, budget, cache, position, pc, manager, calls,
                  post_log >>
  /\ cycle' = cycle
  /\ fmt' = fmt
  /\ signalled' = signalled

\* BotManager.start from the installation of the signal handlers to the
\* main loop: bot.initialize() has returned, `self.running = True`.
Start ==
  /\ pc = "starting"
  /\ running' = TRUE
  /\ pc' = "idle"
  /\ UNCHANGED << config, budget, now, cache, position, sleep_until, calls,
                  post_log >>
  /\ cycle' = cycle
  /\ fmt' = fmt
  /\ signalled' = signalled

\* BotManager._signal_handler: SIGINT or SIGTERM is delivered.  The handler
\* runs between two steps of the main flow and only clears the flag.
SignalHandler ==
  /\ pc # "stopped"
  /\ running' = FALSE
  /\ signalled' = IF signalled = "untracked" THEN signalled ELSE "yes"
  /\ UNCHANGED << config, budget, now, cache, position, pc, sleep_until,
                  calls, post_log >>
  /\ cycle' = cycle
  /\ fmt' = fmt

\* Variant: the sleep never returns.
SleepOverNever == FALSE

\* The interval of the sleep in progress has elapsed.
SleepOver == now >= sleep_until

\* `await asyncio.sleep(config.check_interval)` returns once the interval
\* has elapsed.
Wake ==
  /\ pc = "sleep"
  /\ SleepOver
  /\ pc' = "idle"
  /\ UNCHANGED << config, budget, now, cache, position, manager, calls,
                  post_log >>
  /\ cycle' = cycle
  /\ fmt' = fmt
  /\ signalled' = signalled

\* `while self.running:` finds the flag cleared: the loop ends.
Exit ==
  /\ pc = "idle"
  /\ ~running
  /\ pc' = "stopped"
  /\ UNCHANGED << config, budget, now, cache, position, manager, calls,
                  post_log >>
  /\ cycle' = cycle
  /\ fmt' = fmt
  /\ signalled' = signalled

\* Variant: the reset check of _check_daily_reset uses >= instead of >.
ResetDueOrEqual == TodayStart(now) >= daily_reset_time

\* _check_daily_reset
ResetDue == TodayStart(now) > daily_reset_time

\* Variant: the daily limit check of run_cycle uses > instead of >=.
LimitReachedStrict(c) == c > config.max_posts_per_day

\* `self.post_count_today >= self.config.max_posts_per_day` in run_cycle
LimitReached(c) == c >= config.max_posts_per_day

\* The end of run_cycle: back in the main loop, which sleeps for
\* check_interval.
EndCycle ==
  /\ pc' = "sleep"
  /\ sleep_until' = now + config.check_interval

\* Variant: the main loop does not look at the flag.
LoopConditionAlways == TRUE

\* `while self.running:`
LoopCondition == running

\* Variant: run_cycle is started without waiting for the previous one.
CycleReturnedIgnored == pc # "starting" /\ pc # "stopped"

\* `await self.bot.run_cycle()` in the loop body: the loop is back at its
\* condition only when the previous cycle and the sleep after it are over.
CycleReturned == pc = "idle"

\* The loop condition holds and run_cycle runs up to the first journalist:
\* the daily reset, then the daily limit check.
StartCycle ==
  /\ CycleReturned
  /\ LoopCondition
  /\ post_count_today' = IF ResetDue THEN 0 ELSE post_count_today
  /\ daily_reset_time' = IF ResetDue THEN TodayStart(now) ELSE daily_reset_time
  /\ IF LimitReached(post_count_today') \/ Len(journalists) = 0
       THEN EndCycle
       ELSE pc' = "fetch" /\ sleep_until' = sleep_until
  /\ running' = running
  /\ src_idx' = 1
  /\ tweets' = << >>
  /\ tw_idx' = 1
  /\ answer' = "PENDING"
  /\ calls' = << >>
  /\ UNCHANGED << config, last_post_time, now, cache, post_log >>
  /\ cycle' = IF cycle.track = "scenario"
                THEN NewCycle(cycle.track,
                              IF ResetDue THEN 0 ELSE post_count_today)
                ELSE NewCycle(cycle.track, 0)
  /\ fmt' = fmt
  /\ signalled' = signalled

\* _monitor_journalist up to the tweet loop: get_user_tweets returns a list
\* of at most tweets_per_check tweets; a failed fetch returns the empty list.
Fetch ==
  /\ pc = "fetch"
  /\ \E tw \in SeqsUpTo(config.tweets_per_check) :
       /\ tweets' = tw
       /\ pc' = IF tw = << >> THEN "pause" ELSE "item"
       /\ calls' = << Call("fetch", 0, tw # << >>) >>
       /\ Track("seen", [cycle EXCEPT !.all_seen =
                   @ /\ \A k \in 1..Len(tw) : tw[k] \in processed_tweets])
  /\ tw_idx' = 1
  /\ answer' = "PENDING"
  /\ UNCHANGED << config, budget, now, cache, src_idx, manager, post_log >>
  /\ fmt' = fmt
  /\ signalled' = signalled

\* The position after the tweet at tw_idx: the next tweet, or the end of
\* _monitor_journalist.
AfterItem ==
  /\ IF tw_idx < Len(tweets)
       THEN tw_idx' = tw_idx + 1 /\ pc' = "item"
       ELSE tw_idx' = tw_idx /\ pc' = "pause"
  /\ answer' = "PENDING"

\* `if tweet['id'] in self.processed_tweets: continue`
SkipItem ==
  /\ pc = "item"
  /\ AlreadyProcessed(CurId)
  /\ AfterItem
  /\ calls' = << >>
  /\ UNCHANGED << config, budget, now, cache, src_idx, tweets, manager,
                  post_log >>
  /\ cycle' = cycle
  /\ fmt' = fmt
  /\ signalled' = signalled

\* is_football_related(tweet['text']) and the branch on its result.
Classify ==
  /\ pc = "item"
  /\ ~AlreadyProcessed(CurId)
  /\ \E a \in Answers :
       /\ answer' = a
       /\ pc' = IF IsFootballRelated(a) THEN "gate" ELSE "mark"
       /\ calls' = << Call("classify", CurId, a \notin FailedAnswers) >>
       /\ Track("scenario",
                IF IsFootballRelated(a)
                  THEN [cycle EXCEPT !.relevant = Append(@, CurId)]
                  ELSE cycle)
  /\ classify_count' = [classify_count EXCEPT ![CurId] = @ + 1]
  /\ UNCHANGED << config, budget, now, processed_tweets, ever_added,
                  insert_order, src_idx, tweets, tw_idx, manager, post_log >>
  /\ fmt' = fmt
  /\ signalled' = signalled

\* _process_football_tweet: the rate limit check.
Gate ==
  /\ pc = "gate"
  /\ pc' = IF CanPost(now) THEN "rewrite" ELSE "mark"
  /\ calls' = << >>
  /\ UNCHANGED << config, budget, now, cache, position, manager, post_log >>
  /\ cycle' = cycle
  /\ fmt' = fmt
  /\ signalled' = signalled

\* Variant: the attempt goes on without a rewritten text.
AfterRewriteGoesOn(ok) == "publish"

\* `if not rewritten_text: ... return`
AfterRewrite(ok) == IF ok THEN "publish" ELSE "mark"

\* rewrite_tweet returns a text or None; None is logged as a warning and
\* abandons the attempt.
Rewrite ==
  /\ pc = "rewrite"
  /\ \E ok \in BOOLEAN :
       /\ pc' = AfterRewrite(ok)
       /\ calls' = IF ok THEN << Call("rewrite", CurId, TRUE) >>
                         ELSE << Call("rewrite", CurId, FALSE),
                                 Call("warn", CurId, TRUE) >>
       /\ Track("scenario", [cycle EXCEPT !.all_ok = @ /\ ok])
  /\ UNCHANGED << config, budget, now, cache, position, manager, post_log >>
  /\ fmt' = fmt
  /\ signalled' = signalled

\* Variant: the time of the post is not recorded.
RecordPostNoStamp ==
  /\ last_post_time' = last_post_time
  /\ post_count_today' = post_count_today + 1
  /\ post_log' = IF Len(post_log) = 2
                   THEN << post_log[2], now >>
                   ELSE Append(post_log, now)

\* `self.last_post_time = time.time()` and `self.post_count_today += 1`
RecordPost ==
  /\ last_post_time' = now
  /\ post_count_today' = post_count_today + 1
  /\ post_log' = IF Len(post_log) = 2
                   THEN << post_log[2], now >>
                   ELSE Append(post_log, now)

\* post_tweet and the branch on its result: a failure (False, or an
\* exception inside post_tweet, which returns False) goes to send_error.
Publish ==
  /\ pc = "publish"
  /\ \E success \in BOOLEAN :
       /\ IF success
            THEN /\ RecordPost
                 /\ calls' = << Call("publish", CurId, TRUE) >>
            ELSE /\ UNCHANGED << last_post_time, post_count_today, post_log >>
                 /\ calls' = << Call("publish", CurId, FALSE),
                                Call("notify", CurId, TRUE) >>
       /\ Track("scenario", [cycle EXCEPT !.all_ok = @ /\ success])
  /\ pc' = "mark"
  /\ UNCHANGED << config, daily_reset_time, now, cache, position, manager >>
  /\ fmt' = fmt
  /\ signalled' = signalled

\* `self.processed_tweets.add(tweet['id'])`
Mark ==
  /\ pc = "mark"
  /\ processed_tweets' = processed_tweets \cup {CurId}
  /\ ever_added' = ever_added \cup {CurId}
  /\ insert_order' = IF CurId \in processed_tweets
                       THEN insert_order
                       ELSE Append(insert_order, CurId)
  /\ pc' = "cap"
  /\ calls' = << >>
  /\ UNCHANGED << config, budget, now, classify_count, position, manager,
                  post_log >>
  /\ cycle' = cycle
  /\ fmt' = fmt
  /\ signalled' = signalled

\* The cache size check that follows the add, then on to the next tweet.
Cap ==
  /\ pc = "cap"
  /\ IF OverCap(processed_tweets)
       THEN \E K \in PruneResults(processed_tweets) :
              /\ processed_tweets' = K
              /\ insert_order' = SelectSeq(insert_order, LAMBDA i : i \in K)
              /\ classify_count' =
                   [i \in Ids |-> IF i \in processed_tweets \ K
                                    THEN 0 ELSE classify_count[i]]
       ELSE UNCHANGED << processed_tweets, insert_order, classify_count >>
  /\ AfterItem
  /\ calls' = << >>
  /\ UNCHANGED << config, budget, now, ever_added, src_idx, tweets, manager,
                  post_log >>
  /\ cycle' = cycle
  /\ fmt' = fmt
  /\ signalled' = signalled

\* asyncio.sleep(2) after a journalist, then the next journalist or the end
\* of the cycle.
Pause ==
  /\ pc = "pause"
  /\ IF src_idx < Len(journalists)
       THEN src_idx' = src_idx + 1 /\ pc' = "fetch"
                                   /\ sleep_until' = sleep_until
       ELSE src_idx' = src_idx /\ EndCycle
  /\ running' = running
  /\ tweets' = << >>
  /\ tw_idx' = 1
  /\ answer' = "PENDING"
  /\ calls' = << >>
  /\ UNCHANGED << config, budget, now, cache, post_log >>
  /\ cycle' = cycle
  /\ fmt' = fmt
  /\ signalled' = signalled

Next ==
  \/ Tick
  \/ Start
  \/ Wake
  \/ StartCycle
  \/ Fetch
  \/ SkipItem
  \/ Classify
  \/ Gate
  \/ Rewrite
  \/ Publish
  \/ Mark
  \/ Cap
  \/ Pause

Spec == Init /\ [][Next]_vars

\* The bot with the history of each cycle kept, where the rate limit leaves
\* only the daily limit (min_post_interval = 0).
InitCycle ==
  /\ InitBot
  /\ config.tweets_per_check = TweetsPerCheck
  /\ config.min_post_interval = 0
  /\ cycle = NewCycle("scenario", 0)
  /\ fmt = NoFormat
  /\ signalled = "untracked"

SpecCycle == InitCycle /\ [][Next]_vars

\* The bot with the all_seen history of each cycle kept.
InitSeen ==
  /\ InitBot
  /\ config.tweets_per_check = TweetsPerCheck
  /\ config.max_posts_per_day = 2
  /\ cycle = NewCycle("seen", 0)
  /\ fmt = NoFormat
  /\ signalled = "untracked"

SpecSeen == InitSeen /\ [][Next]_vars

\* One call of _format_final_tweet on its own.
FormatTweet ==
  /\ fmt.pending
  /\ fmt' = [fmt EXCEPT
               !.pending = FALSE,
               !.out = FormatFinalTweet(fmt.rewritten, fmt.username,
                                        fmt.score)]
  /\ UNCHANGED << config, budget, now, cache, position, pc, manager, cycle,
                  signalled, calls, post_log >>

InitFormat ==
  /\ InitBot
  /\ config.tweets_per_check = TweetsPerCheck
  /\ config.max_posts_per_day = 2
  /\ config.min_post_interval = 0
  /\ cycle = NewCycle("off", 0)
  /\ fmt \in FormatInputs
  /\ signalled = "untracked"

NextFormat == FormatTweet

SpecFormat == InitFormat /\ [][NextFormat]_vars

\* The bot with shutdown signals: SIGINT or SIGTERM may be delivered between
\* any two steps, and the main loop ends once it finds the flag cleared.
\* One configuration is enough, the handler does not read it.
InitShutdown ==
  /\ Init
  /\ config.max_posts_per_day = 2
  /\ config.min_post_interval = 0

NextShutdown ==
  \/ Next
  \/ SignalHandler
  \/ Exit

SpecShutdown == InitShutdown /\ [][NextShutdown]_vars

\* The bot without shutdown signals, under the scheduling of the event
\* loop: the only task is the main loop, so whenever it can take its next
\* step (the collaborator it awaits has returned, the sleep is over) it
\* eventually takes it, and the clock does not stop.
InitLive ==
  /\ InitBot
  /\ config.tweets_per_check = 1
  /\ config.max_posts_per_day = 1
  /\ config.min_post_interval = 0
  /\ cycle = NewCycle("off", 0)
  /\ fmt = NoFormat
  /\ signalled = "untracked"

Fairness ==
  /\ WF_vars(Tick)
  /\ WF_vars(Start)
  /\ WF_vars(Wake)
  /\ WF_vars(StartCycle)
  /\ WF_vars(Fetch \/ SkipItem \/ Classify \/ Gate \/ Rewrite \/ Publish
               \/ Mark \/ Cap \/ Pause)

SpecLive == InitLive /\ [][Next]_vars /\ Fairness

\* The same, keeping the history of the signals delivered.
InitStartup ==
  /\ InitBot
  /\ config.tweets_per_check = TweetsPerCheck
  /\ config.max_posts_per_day = 2
  /\ config.min_post_interval = 0
  /\ cycle = NewCycle("off", 0)
  /\ fmt = NoFormat
  /\ signalled = "no"

SpecStartup == InitStartup /\ [][NextShutdown]_vars

\* ---------------------------------------------------------------- claims

\* The program step just taken made the call `op` for item `id`.  A step
\* that makes calls always changes `calls`; Tick leaves it alone.
Made(op, id) ==
  /\ calls' # calls
  /\ \E k \in 1..Len(calls') : calls'[k].op = op /\ calls'[k].id = id

\* The step just taken made the call `op` for some item.
MadeAny(op) ==
  /\ calls' # calls
  /\ \E k \in 1..Len(calls') : calls'[k].op = op

\* C1 - Daily cap: in every reachable state post_count_today is at most
\* max_posts_per_day.
DailyCapInvariant == post_count_today <= config.max_posts_per_day

\* The cap has been reached by posting and a further relevant tweet has just
\* been turned away at the rate limit check.
DailyCapWitness ==
  /\ post_count_today = config.max_posts_per_day
  /\ post_count_today = 2
  /\ pc = "mark"
  /\ answer = "YES"
  /\ calls = << >>

\* C2 - Minimum interval: the times recorded in last_post_time for two
\* successive successful posts are at least min_post_interval apart (and the
\* recorded times never decrease, so the same holds for any two posts).
MinIntervalInvariant ==
  /\ Len(post_log) >= 1 => last_post_time = post_log[Len(post_log)]
  /\ Len(post_log) = 2 =>
       post_log[2] - post_log[1] >= config.min_post_interval

\* Two posts have been made under a positive minimum interval.
MinIntervalWitness ==
  /\ Len(post_log) = 2
  /\ config.min_post_interval = 2
  /\ post_log[2] - post_log[1] >= 2

\* C3 - At most once: between two prunes that discard it, an identifier is
\* handed to the classifier at most once.
AtMostOnceClassified == \A i \in Ids : classify_count[i] <= 1

\* The feed returned the same identifier twice in one list; the first was
\* classified and added, the second is about to be skipped.
AtMostOnceWitness ==
  /\ pc = "item"
  /\ tw_idx = 2
  /\ tweets[1] = tweets[2]
  /\ tweets[1] \in processed_tweets
  /\ classify_count[tweets[1]] = 1

\* C4 as stated - an identifier that was ever added to processed_tweets is
\* never classified, rewritten or published again.
NeverProcessedAgain ==
  [][(\A i \in ever_added :
       ~Made("classify", i) /\ ~Made("rewrite", i) /\ ~Made("publish", i))]_vars

\* C4 amended - an identifier is never classified, rewritten or published
\* while it is in processed_tweets.
NotProcessedWhileSeen ==
  [][(\A i \in processed_tweets :
       ~Made("classify", i) /\ ~Made("rewrite", i) /\ ~Made("publish", i))]_vars

\* The second journalist's feed returns an identifier that is in
\* processed_tweets, after a prune has discarded some other identifier.
NotProcessedWhileSeenWitness ==
  /\ pc = "item"
  /\ src_idx = 2
  /\ CurId \in processed_tweets
  /\ ever_added # processed_tweets

SeenWhenItemEnds ==
  [][(pc = "cap" /\ pc' # "cap" => CurId \in processed_tweets')]_vars

\* C7 - Cache bound: when processing of a tweet has finished the cache holds
\* at most MaxProcessed identifiers; it never holds more than one above that;
\* and the step after an insertion that brought it above MaxProcessed leaves
\* exactly KeepProcessed identifiers.
CacheBound ==
  /\ [](pc # "cap" => Cardinality(processed_tweets) <= MaxProcessed)
  /\ [](Cardinality(processed_tweets) <= MaxProcessed + 1)
  /\ [][(pc = "cap" /\ pc' # "cap"
          /\ Cardinality(processed_tweets) > MaxProcessed =>
          Cardinality(processed_tweets') = KeepProcessed)]_vars
  /\ [][(pc = "cap" /\ pc' # "cap"
          /\ Cardinality(processed_tweets) <= MaxProcessed =>
          processed_tweets' = processed_tweets)]_vars

\* One prune has happened and nothing has been added since.
CacheBoundWitness ==
  /\ pc \in {"item", "pause"}
  /\ Cardinality(processed_tweets) = KeepProcessed
  /\ Cardinality(ever_added) = MaxProcessed + 1

\* The last n elements of a sequence, as a set.
LastN(q, n) == { q[k] : k \in { j \in 1..Len(q) : j > Len(q) - n } }

\* C8 as stated - a prune retains exactly the most recently inserted
\* identifiers, the one just inserted included.
PruneKeepsNewest ==
  [][(pc = "cap" /\ pc' # "cap"
       /\ Cardinality(processed_tweets) > MaxProcessed =>
       processed_tweets' = LastN(insert_order, KeepProcessed))]_vars

\* C9 - Rate-limit gate: the sub-flow goes on to the rewriter exactly when
\* now - last_post_time >= min_post_interval and post_count_today <
\* max_posts_per_day; otherwise the tweet goes straight to the add with no
\* call made and the counters unchanged.  The rewriter is reached only
\* through a passed gate and the publisher only through the rewriter.
GatePasses ==
  /\ now - last_post_time >= config.min_post_interval
  /\ post_count_today < config.max_posts_per_day

RateLimitGate ==
  /\ [][(pc = "gate" /\ pc' # "gate" =>
          /\ (pc' = "rewrite") <=> GatePasses
          /\ ~GatePasses =>
               /\ pc' = "mark"
               /\ calls' = << >>
               /\ UNCHANGED << last_post_time, post_count_today,
                               daily_reset_time, processed_tweets >>)]_vars
  /\ [][(pc' = "rewrite" /\ pc # "rewrite" => pc = "gate" /\ GatePasses)]_vars
  /\ [][(pc' = "publish" /\ pc # "publish" => pc = "rewrite")]_vars
  /\ [][(MadeAny("rewrite") => pc = "rewrite")]_vars
  /\ [][(MadeAny("publish") => pc = "publish")]_vars

\* The gate has let a tweet through with the interval exactly elapsed.
RateLimitGateWitness ==
  /\ pc = "rewrite"
  /\ config.min_post_interval = 2
  /\ post_count_today = 1
  /\ now - last_post_time = config.min_post_interval

\* The publisher's report in the step just taken.
Published(ok) ==
  /\ calls' # calls
  /\ \E k \in 1..Len(calls') : calls'[k].op = "publish" /\ calls'[k].ok = ok

\* C10 - Publish outcome: on success last_post_time becomes the current time
\* and post_count_today grows by one; on failure the notifier is called and
\* both keep their values.
PublishOutcome ==
  /\ [][(Published(TRUE) =>
          /\ last_post_time' = now
          /\ post_count_today' = post_count_today + 1
          /\ ~MadeAny("notify"))]_vars
  /\ [][(Published(FALSE) =>
          /\ MadeAny("notify")
          /\ UNCHANGED << last_post_time, post_count_today >>)]_vars
  /\ [][(pc = "publish" /\ pc' # "publish" =>
          Published(TRUE) \/ Published(FALSE))]_vars

\* A post has just succeeded at a time later than the start of the run.
PublishOutcomeWitness ==
  /\ pc = "mark"
  /\ Len(calls) = 1
  /\ calls[1].op = "publish"
  /\ calls[1].ok
  /\ last_post_time = now
  /\ now > DayLen
  /\ post_count_today = 2

\* ------------------------------------------------ the main loop, shutdown

\* The positions inside run_cycle.
InCycle == {"fetch", "item", "gate", "rewrite", "publish", "mark", "cap",
            "pause"}

\* One step of the cycle in progress.
CycleStep ==
  \/ Fetch \/ SkipItem \/ Classify \/ Gate \/ Rewrite \/ Publish \/ Mark
  \/ Cap \/ Pause

\* C19 (Shutdown does not start new work): once a shutdown request has been
\* received while the main loop is running, the loop starts no new cycle: at
\* the loop condition it can only end.  The request itself changes nothing
\* but the flag, so the cycle in progress is not aborted: every step of it
\* stays possible with the flag cleared, the insertion of the item being
\* processed included.
ShutdownStartsNoCycle ==
  /\ [][(~running /\ pc = "idle" => pc' \in {"idle", "stopped"})]_vars
  /\ [][(~running /\ pc # "starting" => ~running')]_vars
  /\ [][(running /\ ~running' =>
           UNCHANGED << config, budget, now, cache, position, pc,
                        sleep_until, cycle, fmt, calls, post_log >>)]_vars
  /\ [](pc \in InCycle => ENABLED CycleStep)
  /\ [][(~running /\ pc = "mark" /\ pc' # "mark" =>
           CurId \in processed_tweets')]_vars

\* A shutdown request arrived during a cycle; the cycle went on and the
\* item it was processing is now in the set, with another item still to come.
ShutdownStartsNoCycleWitness ==
  /\ ~running
  /\ pc = "cap"
  /\ CurId \in processed_tweets
  /\ tw_idx < Len(tweets)

\* C20 as stated (Cancellable sleep): a shutdown request that arrives during
\* the sleep between two cycles ends the sleep: the loop is never still
\* asleep, with part of check_interval left to wait, after the request.
SleepEndsOnShutdown ==
  ~(pc = "sleep" /\ ~running /\ now < sleep_until)

\* ------------------------------------------------- the start of a cycle

\* post_count_today as the daily reset check at the start of a cycle leaves
\* it.
CountAfterResetCheck ==
  IF TodayStart(now) > daily_reset_time THEN 0 ELSE post_count_today

\* C11 (Daily reset): the reset check, which run_cycle makes first, sets
\* post_count_today to 0 and daily_reset_time to today's midnight exactly
\* when today's midnight is strictly later than the stored daily_reset_time;
\* otherwise it leaves both unchanged.  It never changes last_post_time, and
\* daily_reset_time changes nowhere else.
DailyReset ==
  /\ [][(pc = "idle" /\ pc' \in {"fetch", "sleep"} =>
           /\ TodayStart(now) > daily_reset_time =>
                 /\ post_count_today' = 0
                 /\ daily_reset_time' = TodayStart(now)
           /\ ~(TodayStart(now) > daily_reset_time) =>
                 UNCHANGED << post_count_today, daily_reset_time >>
           /\ last_post_time' = last_post_time)]_vars
  /\ [][(daily_reset_time' # daily_reset_time => pc = "idle")]_vars

\* A cycle has just started on a new day: the posts of the day before are
\* no longer counted, and the time of the last one is still recorded.
DailyResetWitness ==
  /\ pc = "fetch"
  /\ src_idx = 1
  /\ daily_reset_time = TodayStart(now)
  /\ daily_reset_time > DayLen
  /\ post_count_today = 0
  /\ Len(post_log) >= 1
  /\ last_post_time = post_log[Len(post_log)]
  /\ last_post_time < daily_reset_time

\* C12 (Global cap check): if, after the daily reset check, post_count_today
\* >= max_posts_per_day at the start of a cycle, the cycle ends there: it
\* calls neither the provider, the classifier, the rewriter, the publisher
\* nor the notifier, and it leaves the SeenSet and the posting budget as the
\* reset check left them.
CapEndsCycle ==
  [][(pc = "idle" /\ pc' # "idle"
        /\ CountAfterResetCheck >= config.max_posts_per_day =>
          /\ pc' = "sleep"
          /\ calls' = << >>
          /\ UNCHANGED << processed_tweets, last_post_time, classify_count,
                          post_log >>
          /\ post_count_today' = CountAfterResetCheck)]_vars

\* A cycle has ended at the cap check: the loop sleeps without having
\* visited the first journalist, on a day on which the limit of 2 is used up.
CapEndsCycleWitness ==
  /\ pc = "sleep"
  /\ src_idx = 1
  /\ calls = << >>
  /\ config.max_posts_per_day = 2
  /\ post_count_today = 2
  /\ Cardinality(processed_tweets) >= 1

\* C13 as stated (Source iteration): a cycle that passes the cap check
\* fetches from the enabled journalists only: every fetch is for a
\* journalist whose enabled flag is true, and no item of a journalist whose
\* flag is false is classified, rewritten or published.
EnabledSourcesOnly ==
  /\ [][(pc = "fetch" /\ pc' # "fetch" =>
           MadeAny("fetch") /\ CurJournalist.enabled)]_vars
  /\ [][(MadeAny("classify") \/ MadeAny("rewrite") \/ MadeAny("publish") =>
           CurJournalist.enabled)]_vars

\* ------------------------------------------------------- a whole cycle

Min(a, b) == IF a <= b THEN a ELSE b

\* The number of publishes of the cycle in progress.
PublishedInCycle == post_count_today - cycle.start_count

\* The cycle in progress is one the scenario is about: the rate limit is the
\* daily limit alone, and no rewrite and no publish has failed.
ScenarioCycle ==
  /\ cycle.track = "scenario"
  /\ pc \in InCycle
  /\ config.min_post_interval = 0
  /\ cycle.all_ok

\* Between two items of a scenario cycle, min(k, max_posts_per_day - c) of
\* the k relevant items met so far have been published: the first ones met.
ScenarioPublishCount ==
  ScenarioCycle /\ pc \in {"item", "pause"} =>
    PublishedInCycle =
      Min(Len(cycle.relevant), config.max_posts_per_day - cycle.start_count)

\* At the end of a scenario cycle every relevant item met is in the set.
ScenarioAllSeen ==
  ScenarioCycle /\ pc = "pause" /\ src_idx = Len(journalists) =>
    \A k \in 1..Len(cycle.relevant) : cycle.relevant[k] \in processed_tweets

\* C14 as stated (Rate-limited cycle scenario): in one cycle with
\* min_post_interval = 0 that starts with post_count_today = c and meets k
\* new relevant items, all rewrites and publishes succeeding, exactly
\* min(k, max_posts_per_day - c) publishes happen, for the first items met,
\* and all k identifiers are in the SeenSet at the end of the cycle.
CycleScenario == ScenarioPublishCount /\ ScenarioAllSeen

\* What the cycle in progress may do while every tweet fetched so far was
\* already in processed_tweets: nothing but fetch and skip.
OnlySkips ==
  /\ UNCHANGED << processed_tweets, post_count_today, last_post_time,
                  daily_reset_time >>
  /\ ~MadeAny("classify")
  /\ ~MadeAny("rewrite")
  /\ ~MadeAny("publish")
  /\ ~MadeAny("notify")

\* C15 (Idempotence of run_cycle on already-seen items): as long as every
\* tweet the provider has returned in a cycle was already in the SeenSet,
\* the cycle calls neither classifier, rewriter, publisher nor notifier and
\* leaves the SeenSet, post_count_today and last_post_time unchanged; and
\* on the same day the start of the cycle changes none of them either, so a
\* second cycle on the same feed changes nothing.
SeenItemsChangeNothing ==
  /\ [][(cycle.track = "seen" /\ pc \in InCycle /\ cycle'.all_seen =>
           OnlySkips)]_vars
  /\ [][(pc = "idle" /\ ~(TodayStart(now) > daily_reset_time) =>
           /\ UNCHANGED << processed_tweets, post_count_today,
                           last_post_time, daily_reset_time >>
           /\ calls' = << >>)]_vars

\* The second cycle of a day is at its end; both journalists returned
\* tweets, two different ones for the second, and all were already in the
\* set, which a post of the first cycle had helped to fill.
SeenItemsChangeNothingWitness ==
  /\ cycle.track = "seen"
  /\ cycle.all_seen
  /\ pc = "pause"
  /\ src_idx = Len(journalists)
  /\ Len(tweets) = 2
  /\ tweets[1] # tweets[2]
  /\ post_count_today = 1
  /\ last_post_time < now
  /\ daily_reset_time = TodayStart(last_post_time)

\* ------------------------------------------------ the formatted tweet

\* The call looked at has returned.
Formatted == ~fmt.pending /\ fmt.out # << >>

FmtSuffix == Suffix(fmt.username, fmt.score)
FmtAssembled == Assembled(fmt.rewritten, fmt.username, fmt.score)
FmtAllowance == TweetLimit - Len(FmtSuffix)

\* The result is the text cut to (allowance - 3) characters, an ellipsis of
\* 3 characters, and the attribution.
IsTruncated ==
  fmt.out = SubSeq(fmt.rewritten, 1, FmtAllowance - 3)
              \o << ".", ".", "." >> \o FmtSuffix

EndsWith(text, tail) ==
  /\ Len(text) >= Len(tail)
  /\ SubSeq(text, Len(text) - Len(tail) + 1, Len(text)) = tail

\* C16 as stated (Truncation threshold): when the assembled string is longer
\* than 280 characters, the rewritten text is cut to (allowance - 3)
\* characters plus an ellipsis exactly when the allowance is at least 50,
\* 50 included; below 50 the over-length string is returned unmodified.
TruncatedFromFifty ==
  Formatted /\ Len(FmtAssembled) > TweetLimit =>
    /\ FmtAllowance >= 50 => IsTruncated
    /\ FmtAllowance < 50 => fmt.out = FmtAssembled

\* C16 amended: when the assembled string is longer than 280 characters,
\* the rewritten text is cut to (allowance - 3) characters plus an ellipsis
\* exactly when the allowance is greater than 50; with an allowance of 50
\* or less the over-length string is returned unmodified.  A string of 280
\* characters or fewer is returned as assembled.
TruncatedAboveFifty ==
  /\ Formatted /\ Len(FmtAssembled) > TweetLimit =>
       /\ FmtAllowance > 50 => IsTruncated /\ fmt.out # FmtAssembled
       /\ FmtAllowance <= 50 => fmt.out = FmtAssembled
  /\ Formatted /\ Len(FmtAssembled) <= TweetLimit => fmt.out = FmtAssembled

\* An over-length tweet with an allowance of exactly 50 came back as it
\* was assembled, longer than 280 characters.
TruncatedAboveFiftyWitness ==
  /\ Formatted
  /\ FmtAllowance = 50
  /\ Len(FmtAssembled) > TweetLimit
  /\ fmt.out = FmtAssembled
  /\ Len(fmt.out) > TweetLimit

\* C17 as stated (Truncation result): for every rewritten text that makes
\* the assembled string exceed 280 characters, with an attribution that
\* leaves an allowance of at least 50, the result has length <= 280 and ends
\* with the complete attribution; the attribution is never shortened.
FitsFromFifty ==
  /\ Formatted /\ Len(FmtAssembled) > TweetLimit /\ FmtAllowance >= 50 =>
       Len(fmt.out) <= TweetLimit /\ EndsWith(fmt.out, FmtSuffix)
  /\ Formatted => EndsWith(fmt.out, FmtSuffix)

\* C17 amended: the same for an allowance greater than 50.
FitsAboveFifty ==
  /\ Formatted /\ Len(FmtAssembled) > TweetLimit /\ FmtAllowance > 50 =>
       Len(fmt.out) <= TweetLimit /\ EndsWith(fmt.out, FmtSuffix)
  /\ Formatted => EndsWith(fmt.out, FmtSuffix)

\* A rewritten text of 300 characters for a username of 15 came back as a
\* tweet of exactly 280 characters that ends with the attribution.
FitsAboveFiftyWitness ==
  /\ Formatted
  /\ Len(fmt.rewritten) = 300
  /\ Len(fmt.username) = 15
  /\ Len(fmt.out) = TweetLimit
  /\ EndsWith(fmt.out, FmtSuffix)
  /\ fmt.out # FmtAssembled

\* The symbol in the result: 6 characters and the score before its end.
SymbolInResult == fmt.out[Len(fmt.out) - Len(ScoreStr(fmt.score)) - 5]

\* C18 (Reliability symbol mapping): for every score in 0..100 the symbol is
\* tier-1 iff score >= 90, tier-2 iff 70 <= score < 90, tier-3 iff
\* 50 <= score < 70, tier-4 iff score < 50.
SymbolMapping ==
  Formatted =>
    LET sym == SymbolInResult
        t == fmt.score.tenths
    IN  /\ sym \in {"GREEN", "YELLOW", "ORANGE", "RED"}
        /\ sym = "GREEN" <=> t >= 900
        /\ sym = "YELLOW" <=> (700 <= t /\ t < 900)
        /\ sym = "ORANGE" <=> (500 <= t /\ t < 700)
        /\ sym = "RED" <=> t < 500

\* A score of exactly 90 got the first symbol.
SymbolMappingWitness ==
  /\ Formatted
  /\ fmt.score.tenths = 900
  /\ SymbolInResult = "GREEN"

\* ------------------------------------------------------------- failures

\* A call of `op` that reported `ok` is made in this step.
MadeWith(op, ok) ==
  /\ calls' # calls
  /\ \E k \in 1..Len(calls') : calls'[k].op = op /\ calls'[k].ok = ok

\* C21 as stated (Classifier failure reporting): every classifier failure is
\* treated as not relevant, produces a notification to the Notifier, and
\* does not end the cycle: the next item of the journalist, or the pause
\* before the next journalist, follows once the item is in the set.
ClassifierFailureNotified ==
  /\ [][(MadeWith("classify", FALSE) =>
           /\ pc' = "mark"
           /\ ~MadeAny("rewrite") /\ ~MadeAny("publish")
           /\ MadeAny("notify"))]_vars
  /\ [][(answer \in FailedAnswers /\ pc = "cap" /\ pc' # "cap" =>
           pc' = IF tw_idx < Len(tweets) THEN "item" ELSE "pause")]_vars

\* C22 (Rewrite failure): when the rewriter returns no result the attempt is
\* abandoned: the publisher is not called, neither in that step nor later
\* for this item, post_count_today and last_post_time are unchanged, and a
\* warning is reported.
RewriteFailureAbandons ==
  /\ [][(MadeWith("rewrite", FALSE) =>
           /\ pc' = "mark"
           /\ ~MadeAny("publish")
           /\ MadeAny("warn")
           /\ UNCHANGED << post_count_today, last_post_time,
                           daily_reset_time >>)]_vars
  /\ [][(MadeAny("publish") => pc = "publish")]_vars
  /\ [][(pc' = "publish" /\ pc # "publish" =>
           MadeWith("rewrite", TRUE))]_vars
  /\ [][(MadeAny("warn") => MadeWith("rewrite", FALSE))]_vars

\* A rewrite has just failed for a tweet that passed the rate limit with one
\* post already made today: the tweet is about to be marked, unpublished.
RewriteFailureAbandonsWitness ==
  /\ pc = "mark"
  /\ answer = "YES"
  /\ Len(calls) = 2
  /\ calls[1] = Call("rewrite", CurId, FALSE)
  /\ calls[2].op = "warn"
  /\ post_count_today = 1
  /\ Len(post_log) = 1

\* The step just taken ends a publish attempt without a successful post.
AttemptFailed ==
  \/ pc = "gate" /\ pc' # "gate" /\ ~GatePasses
  \/ MadeWith("rewrite", FALSE)
  \/ Published(FALSE)

\* C25 (No retry): the publish sub-flow is entered only from the classifier's
\* answer for a tweet that is not in processed_tweets and has not been
\* classified since it was last discarded; inside the sub-flow every edge
\* goes forward; an attempt that did not succeed leads to the add of the
\* same tweet; and no tweet in processed_tweets is handed to the rewriter or
\* the publisher.
NoRetry ==
  /\ [][(pc' = "gate" /\ pc # "gate" =>
           /\ pc = "item"
           /\ CurId \notin processed_tweets
           /\ classify_count[CurId] = 0
           /\ UNCHANGED << src_idx, tweets, tw_idx >>)]_vars
  /\ [][(pc = "rewrite" => pc' \in {"rewrite", "publish", "mark"})]_vars
  /\ [][(pc = "publish" => pc' \in {"publish", "mark"})]_vars
  /\ [][(AttemptFailed =>
           /\ pc' = "mark"
           /\ UNCHANGED << src_idx, tweets, tw_idx, processed_tweets >>)]_vars
  /\ [][(pc = "mark" /\ pc' # "mark" =>
           pc' = "cap" /\ CurId \in processed_tweets')]_vars
  /\ [][(\A i \in processed_tweets :
           ~Made("rewrite", i) /\ ~Made("publish", i))]_vars

\* A relevant tweet was added without ever having been published (nothing
\* has been published at all), and the feed returns the same identifier
\* again as the next tweet.
NoRetryWitness ==
  /\ pc = "cap"
  /\ answer = "YES"
  /\ post_log = << >>
  /\ config.max_posts_per_day > 0
  /\ CurId \in processed_tweets
  /\ tw_idx < Len(tweets)
  /\ tweets[tw_idx + 1] = CurId

\* The step just taken is the daily reset check finding a new day.
ResetStep ==
  /\ pc = "idle"
  /\ pc' # "idle"
  /\ TodayStart(now) > daily_reset_time

\* C28 (Counter accuracy): post_count_today starts at 0, grows by exactly
\* one with every publisher call that reported success, returns to 0 at a
\* daily reset and is changed by no other step, so it is the number of
\* successful publisher calls since the last reset (or since the start);
\* last_post_time is 0 until the first successful post and the time of the
\* most recent one afterwards, and is written by no other step.
CounterAccuracy ==
  /\ [](post_log = << >> => last_post_time = 0)
  /\ [](post_log # << >> => last_post_time = post_log[Len(post_log)])
  /\ [](post_log = << >> => post_count_today = 0)
  /\ [](post_count_today >= 0)
  /\ [][(Published(TRUE) =>
           /\ post_count_today' = post_count_today + 1
           /\ last_post_time' = now
           /\ post_log' # << >>
           /\ post_log'[Len(post_log')] = now)]_vars
  /\ [][(post_count_today' # post_count_today =>
           \/ Published(TRUE)
           \/ ResetStep /\ post_count_today' = 0)]_vars
  /\ [][(ResetStep => post_count_today' = 0)]_vars
  /\ [][(last_post_time' # last_post_time => Published(TRUE))]_vars
  /\ [][(post_log' # post_log => Published(TRUE))]_vars

\* A post was made yesterday and another one after today's reset: the count
\* is 1 although two posts were made since the start.
CounterAccuracyWitness ==
  /\ Len(post_log) = 2
  /\ post_log[1] < daily_reset_time
  /\ post_log[2] >= daily_reset_time
  /\ post_count_today = 1
  /\ last_post_time = post_log[2]
  /\ pc = "mark"

\* ------------------------------------------------------------ sequencing

\* The fields the rate limit and the duplicate check depend on.
shared == << post_count_today, last_post_time, daily_reset_time,
            processed_tweets >>

\* C26 (Race-free counters): while a cycle is in flight no other cycle can
\* start; from the moment the rate limit check has passed until the attempt
\* ends, across the waits for the rewriter and the publisher, no step reads
\* the counters (neither the start of a cycle nor another rate limit check
\* is possible) and none writes the counters or processed_tweets except the
\* attempt's own update, which still finds what the check found; a
\* shutdown request arriving in between changes the flag only.
RaceFreeCounters ==
  /\ [](pc \in InCycle \cup {"sleep"} => ~ENABLED StartCycle)
  /\ [](pc \in {"rewrite", "publish"} => ~ENABLED Gate)
  /\ [][(pc \in {"rewrite", "publish"} =>
           /\ UNCHANGED << src_idx, tweets, tw_idx >>
           /\ pc' \in {"rewrite", "publish", "mark"}
           /\ \/ UNCHANGED shared
              \/ /\ pc = "publish"
                 /\ Published(TRUE)
                 /\ GatePasses
                 /\ UNCHANGED << daily_reset_time, processed_tweets >>)]_vars
  /\ [][(daily_reset_time' # daily_reset_time => pc = "idle")]_vars
  /\ [][(post_count_today' # post_count_today =>
           pc \in {"idle", "publish"})]_vars
  /\ [][(last_post_time' # last_post_time => pc = "publish")]_vars
  /\ [][(processed_tweets' # processed_tweets =>
           pc \in {"mark", "cap"})]_vars

\* A shutdown request arrived during the cycle; an attempt that passed the
\* rate limit check has just recorded its post, the second of the day.
RaceFreeCountersWitness ==
  /\ ~running
  /\ pc = "mark"
  /\ Len(calls) = 1
  /\ calls[1] = Call("publish", CurId, TRUE)
  /\ last_post_time = now
  /\ post_count_today = 2

\* ------------------------------------------------------------ exceptions
\* The collaborators of the running bot report their failures as results
\* (None, False, the empty list), so an exception in the cycle is an event
\* of the environment: a collaborator that raises all the same.  The
\* specification below adds these events to the steps of the bot and
\* follows the except clauses of bot.py.

\* send_error, called once by the except clause that catches.
Caught(id) == << Call("raise", id, FALSE), Call("notify", id, TRUE) >>

\* The position after the journalist at src_idx when the pause is skipped:
\* the next journalist of the for loop of run_cycle, or its end.
AfterJournalist ==
  /\ IF src_idx < Len(journalists)
       THEN src_idx' = src_idx + 1 /\ pc' = "fetch"
                                   /\ sleep_until' = sleep_until
       ELSE src_idx' = src_idx /\ EndCycle
  /\ tweets' = << >>
  /\ tw_idx' = 1
  /\ answer' = "PENDING"

\* Variant: the for loop of run_cycle has no except clause of its own.
SourceCaughtNever == FALSE

\* `except Exception` around _monitor_journalist in run_cycle
SourceCaught == TRUE

\* An exception that leaves _monitor_journalist (its outer except clause
\* raises it again): run_cycle reports it and goes on with the next
\* journalist; uncaught there, it would reach the except clause around the
\* whole of run_cycle, which reports it and returns.
SourceFailure ==
  IF SourceCaught
    THEN AfterJournalist
    ELSE /\ EndCycle
         /\ UNCHANGED << src_idx, tweets, tw_idx, answer >>

\* Variant: the tweet loop has no except clause.
ItemCaughtNever == FALSE

\* `except Exception` inside the tweet loop of _monitor_journalist
ItemCaught == TRUE

\* An exception in the body of the tweet loop: reported, and the loop goes
\* on with the next tweet; the add is not reached.
ItemFailure ==
  IF ItemCaught
    THEN AfterItem /\ UNCHANGED << src_idx, tweets, sleep_until >>
    ELSE SourceFailure

\* Variant: _process_football_tweet has no except clause.
SubflowCaughtNever == FALSE

\* `except Exception` of _process_football_tweet
SubflowCaught == TRUE

\* get_user_tweets raises.
FetchRaise ==
  /\ pc = "fetch"
  /\ SourceFailure
  /\ calls' = Caught(0)
  /\ UNCHANGED << config, budget, now, cache, running, post_log >>
  /\ cycle' = cycle
  /\ fmt' = fmt
  /\ signalled' = signalled

\* The duplicate check, the age check or the classifier raises.
ItemRaise ==
  /\ pc = "item"
  /\ ItemFailure
  /\ calls' = Caught(CurId)
  /\ UNCHANGED << config, budget, now, cache, running, post_log >>
  /\ cycle' = cycle
  /\ fmt' = fmt
  /\ signalled' = signalled

\* The rewriter, the formatting or the publisher raises inside
\* _process_football_tweet, which reports it and returns to the tweet loop.
SubflowRaise ==
  /\ pc \in {"rewrite", "publish"}
  /\ IF SubflowCaught
       THEN /\ pc' = "mark"
            /\ UNCHANGED << src_idx, tweets, tw_idx, answer, sleep_until >>
       ELSE ItemFailure
  /\ calls' = Caught(CurId)
  /\ UNCHANGED << config, budget, now, cache, running, post_log >>
  /\ cycle' = cycle
  /\ fmt' = fmt
  /\ signalled' = signalled

InitFaults ==
  /\ Init
  /\ config.max_posts_per_day = 2
  /\ config.min_post_interval = 0

NextFaults ==
  \/ Next
  \/ FetchRaise
  \/ ItemRaise
  \/ SubflowRaise

SpecFaults == InitFaults /\ [][NextFaults]_vars

\* How many times the step just taken called send_error.
Notified ==
  IF calls' = calls THEN 0
  ELSE Cardinality({k \in 1..Len(calls') : calls'[k].op = "notify"})

\* The step just taken is an exception raised while the bot was at `at`.
Raised(at) == pc \in at /\ MadeAny("raise")

\* C23 (Item-level containment): an exception raised while a tweet is
\* processed is reported to the notifier once and the tweet loop goes on with
\* the next tweet of the same journalist (or ends normally after the last
\* one, with the pause before the next journalist); the tweets already
\* fetched are kept and no journalist is skipped.
ItemContainment ==
  /\ [][(Raised({"item"}) =>
           /\ Notified = 1
           /\ UNCHANGED << src_idx, tweets >>
           /\ IF tw_idx < Len(tweets)
                THEN pc' = "item" /\ tw_idx' = tw_idx + 1
                ELSE pc' = "pause")]_vars
  /\ [][(pc \in {"item", "gate", "rewrite", "publish", "mark", "cap"} =>
           /\ pc' \in {"item", "gate", "rewrite", "publish", "mark", "cap",
                        "pause"}
           /\ UNCHANGED << src_idx, tweets >>
           /\ tw_idx' \in {tw_idx, tw_idx + 1}
           /\ pc' = "pause" => tw_idx = Len(tweets))]_vars

\* The first of two tweets raised; the second is about to be processed.
ItemContainmentWitness ==
  /\ pc = "item"
  /\ tw_idx = 2
  /\ calls = Caught(tweets[1])
  /\ tweets[1] # tweets[2]
  /\ tweets[1] \notin processed_tweets

\* C24 (Source-level containment): a journalist whose fetch raises or
\* returns nothing has no tweet processed; inside a cycle the journalists
\* are visited one after the other, whatever was raised, and the cycle ends
\* only after the last one, by returning to the main loop, which sleeps for
\* check_interval.
SourceContainment ==
  /\ [][(pc = "fetch" /\ pc' # "fetch" /\ tweets' = << >> =>
           /\ pc' \in {"pause", "sleep"}
           /\ src_idx' = src_idx)]_vars
  /\ [][(pc = "fetch" /\ pc' = "fetch" /\ MadeAny("raise") =>
           src_idx' = src_idx + 1 /\ Notified = 1)]_vars
  /\ [][(pc \in InCycle /\ src_idx' # src_idx =>
           src_idx' = src_idx + 1 /\ pc' = "fetch")]_vars
  /\ [][(pc \in InCycle /\ pc' \notin InCycle =>
           /\ pc' = "sleep"
           /\ sleep_until' = now + config.check_interval
           /\ src_idx = Len(journalists))]_vars
  /\ [](pc \in InCycle => ENABLED CycleStep)

\* The fetch for the first journalist raised and the second journalist is
\* about to be fetched.
SourceContainmentWitness ==
  /\ pc = "fetch"
  /\ src_idx = 2
  /\ calls = Caught(0)

\* C30 (Sub-flow exception containment): when the rewriter or the publisher
\* raises, post_count_today and last_post_time keep their values, the
\* notifier is called exactly once, and the bot is back in the tweet loop at
\* the add of the same tweet, which puts its identifier in processed_tweets.
SubflowContainment ==
  /\ [][(Raised({"rewrite", "publish"}) =>
           /\ UNCHANGED << post_count_today, last_post_time,
                           daily_reset_time, processed_tweets >>
           /\ Notified = 1
           /\ pc' = "mark"
           /\ UNCHANGED << src_idx, tweets, tw_idx >>)]_vars
  /\ [][(pc = "mark" /\ pc' # "mark" =>
           pc' = "cap" /\ CurId \in processed_tweets')]_vars
  /\ [](pc = "mark" => ENABLED Mark)

\* The rewriter or the publisher has just raised for a relevant tweet, after
\* an earlier post had succeeded; the tweet is about to be added.
SubflowContainmentWitness ==
  /\ pc = "mark"
  /\ answer = "YES"
  /\ calls = Caught(CurId)
  /\ CurId \notin processed_tweets
  /\ post_count_today = 1
  /\ Len(post_log) = 1

\* C29 as stated (Shutdown during startup): once a shutdown signal has been
\* delivered, at any moment after the handlers were installed and before the
\* first cycle, the main loop starts no cycle.
StartupShutdownHonoured ==
  [][(signalled = "yes" /\ pc = "idle" => pc' \in {"idle", "stopped"})]_vars

\* ---------------------------------------------------------------- schedule

\* C27 (Liveness of the schedule): without a shutdown request and with
\* collaborators that return, the startup leads to the main loop, every
\* cycle in progress ends in the sleep of the main loop, every sleep that
\* ends within the time modelled is followed by the loop condition, and
\* from the loop condition a cycle is started (it goes to its first
\* journalist, or ends at once on the daily limit).
ScheduleLiveness ==
  /\ (pc = "starting") ~> (pc = "idle")
  /\ (pc \in InCycle) ~> (pc = "sleep")
  /\ (pc = "sleep" /\ sleep_until <= MaxTime) ~> (pc = "idle")
  /\ (pc = "idle") ~> (pc \in {"fetch", "sleep"})

\* A later cycle is at its first journalist, after a cycle that processed a
\* tweet and published nothing.
ScheduleLivenessWitness ==
  /\ pc = "fetch"
  /\ src_idx = 1
  /\ processed_tweets # {}
  /\ post_log = << >>
  /\ now > DayLen
====
